---- MODULE Spec2Model ----
(***************************************************************************)
(* State-machine model of the find-your-keeb storefront and admin console: *)
(*   AdminOrders       (src/unnamed/part_001)                              *)
(*   ProductDetail     (src/unnamed/part_000)                              *)
(*   AdminProductForm  (src/unnamed/part_002)                              *)
(*   Home              (src/src/pages/Home.tsx)                            *)
(*                                                                         *)
(* Every screen is a React function component: its useState cells are the  *)
(* fields of one record variable, every event handler and every            *)
(* continuation after an `await` is one atomic action (JavaScript runs a   *)
(* handler to completion; the continuation of an await runs in a later     *)
(* task, so other events may be handled in between).  The backend is the   *)
(* environment: it answers each call with a success or with a failure, at  *)
(* a moment of its own choosing, and answers may overtake each other.      *)
(***************************************************************************)
EXTENDS Integers, Sequences, FiniteSets, Bags, TLC

VARIABLES
    adminOrders,     \* useState cells of AdminOrders
    backendOrders,   \* the backend's status of each order (id -> status)
    calls,           \* AdminOrders: the bag of pending async invocations
    ordersMounted,   \* AdminOrders: whether the mount effect has run
    submits,         \* AdminOrders: the number of handleStatusSubmit invocations so far
    location,        \* storefront: the route shown
    id,              \* storefront: the :id parameter of /products/:id (0 elsewhere)
    session,         \* storefront: what useAuth() gives (isAuthenticated, isAdmin)
    home,            \* useState cells of Home
    productDetail,   \* useState cells of ProductDetail
    shopCalls,       \* storefront: the bag of pending calls of the mounted screen
    adminProductForm,  \* useState cells of AdminProductForm
    formLocation,    \* admin product form: the route shown
    createCall,      \* admin product form: the pending createProduct call, if any
    layoutsCall,     \* admin product form: position of the getKeyboardLayouts call
    timers,          \* admin product form: the pending setTimeout delays
    created          \* admin product form: createProduct calls the backend has accepted

ordersVars == <<adminOrders, backendOrders, calls, ordersMounted, submits>>

shopVars == <<location, id, session, home, productDetail, shopCalls>>

formVars == <<adminProductForm, formLocation, createCall, layoutsCall, timers, created>>

vars == <<adminOrders, backendOrders, calls, ordersMounted, submits,
          location, id, session, home, productDetail, shopCalls,
          adminProductForm, formLocation, createCall, layoutsCall, timers, created>>

\* string | null cells hold Null when null
Null == "null"

(***************************************************************************)
(*                              AdminOrders                                *)
(***************************************************************************)

\* the number of handleStatusSubmit invocations followed
MaxSubmits == 2

\* the backend holds two orders: the one being edited and another
OrderIds == {1, 2}

OrderStatus == {"PENDING", "CONFIRMED", "SHIPPED", "DELIVERED", "CANCELLED"}

AdminOrdersInit ==
    [orders |-> <<>>, loading |-> TRUE, error |-> Null,
     statusDialogOpen |-> FALSE, selectedOrder |-> <<>>, newStatus |-> "PENDING"]

\* One pending async invocation: the fetchOrders of the mount effect (kind "mount") or a
\* handleStatusSubmit (kind "submit"), at its await (pc); the *Ok / *Fail positions are
\* the backend's answer on its way back.  nUpdate and nFetch count the updateOrderStatus
\* and getAllOrders calls the invocation has made.
NewCall(kind) ==
    [kind |-> kind, pc |-> "start", orderId |-> 0, status |-> "PENDING", data |-> <<>>,
     nUpdate |-> 0, nFetch |-> 0]

Pending == BagToSet(calls)

Replace(r, r2) == (calls (-) SetToBag({r})) (+) SetToBag({r2})

Remove(r) == calls (-) SetToBag({r})

\* the table and the dialog are rendered only when loading is false (early return)
OrdersRendered == ordersMounted /\ ~adminOrders.loading

\* fetchOrders up to its await: setLoading(true), then the getAllOrders call
FetchOrdersStart(r) ==
    /\ adminOrders' = [adminOrders EXCEPT !.loading = TRUE]
    /\ calls' = Replace(r, [r EXCEPT !.pc = "getAllOrders", !.nFetch = @ + 1])

\* the mount effect: useEffect(() => { fetchOrders() }, [])
OrdersMount ==
    /\ ~ordersMounted
    /\ ordersMounted' = TRUE
    /\ adminOrders' = [adminOrders EXCEPT !.loading = TRUE]
    /\ calls' = calls (+) SetToBag({[NewCall("mount") EXCEPT !.pc = "getAllOrders",
                                                             !.nFetch = 1]})
    /\ UNCHANGED <<backendOrders, submits, shopVars, formVars>>

\* the backend answers getAllOrders with the orders it holds now, or with a failure
ServerGetAllOrders(r, ok) ==
    /\ r.pc = "getAllOrders"
    /\ IF ok
       THEN calls' = Replace(r, [r EXCEPT !.pc = "getAllOrdersOk", !.data = backendOrders])
       ELSE calls' = Replace(r, [r EXCEPT !.pc = "getAllOrdersFail"])
    /\ UNCHANGED <<adminOrders, backendOrders, ordersMounted, submits, shopVars, formVars>>

\* handleStatusSubmit after `await fetchOrders()`: fetchOrders never throws (it catches)
AfterFetchOrders(r, s) ==
    IF r.kind = "submit"
    THEN [s EXCEPT !.statusDialogOpen = FALSE, !.selectedOrder = <<>>]
    ELSE s

\* fetchOrders after its await, and what its caller does next
FetchOrdersSettle(r) ==
    /\ r.pc \in {"getAllOrdersOk", "getAllOrdersFail"}
    /\ IF r.pc = "getAllOrdersOk"
       THEN adminOrders' = AfterFetchOrders(r,
                [adminOrders EXCEPT !.orders = r.data, !.error = Null, !.loading = FALSE])
       ELSE adminOrders' = AfterFetchOrders(r,
                [adminOrders EXCEPT !.error = "Failed to load orders", !.loading = FALSE])
    /\ calls' = Remove(r)
    /\ UNCHANGED <<backendOrders, ordersMounted, submits, shopVars, formVars>>

\* the edit-status trigger of a row without setNewStatus(order.status)
handleStatusUpdateKeepingStatus(o) ==
    /\ OrdersRendered
    /\ ~adminOrders.statusDialogOpen
    /\ o \in DOMAIN adminOrders.orders
    /\ adminOrders' = [adminOrders EXCEPT
           !.selectedOrder = <<o>>,
           !.statusDialogOpen = TRUE]
    /\ UNCHANGED <<backendOrders, calls, ordersMounted, submits, shopVars, formVars>>

\* the edit-status trigger of a row; the modal dialog covers the table while open
handleStatusUpdate(o) ==
    /\ OrdersRendered
    /\ ~adminOrders.statusDialogOpen
    /\ o \in DOMAIN adminOrders.orders
    /\ adminOrders' = [adminOrders EXCEPT
           !.selectedOrder = <<o>>,
           !.newStatus = adminOrders.orders[o],
           !.statusDialogOpen = TRUE]
    /\ UNCHANGED <<backendOrders, calls, ordersMounted, submits, shopVars, formVars>>

\* the Select of the dialog
SelectStatus(s) ==
    /\ OrdersRendered
    /\ adminOrders.statusDialogOpen
    /\ adminOrders.newStatus # s
    /\ adminOrders' = [adminOrders EXCEPT !.newStatus = s]
    /\ UNCHANGED <<backendOrders, calls, ordersMounted, submits, shopVars, formVars>>

\* Cancel, and the dialog's onClose
CancelDialog ==
    /\ OrdersRendered
    /\ adminOrders.statusDialogOpen
    /\ adminOrders' = [adminOrders EXCEPT !.statusDialogOpen = FALSE]
    /\ UNCHANGED <<backendOrders, calls, ordersMounted, submits, shopVars, formVars>>

\* handleStatusSubmit sending the status the order has in the table, not the one selected
handleStatusSubmitShownStatus ==
    /\ OrdersRendered
    /\ adminOrders.statusDialogOpen
    /\ submits < MaxSubmits
    /\ submits' = submits + 1
    /\ IF adminOrders.selectedOrder = <<>>
       THEN UNCHANGED calls
       ELSE calls' = calls (+) SetToBag({[NewCall("submit") EXCEPT
                         !.pc = "updateOrderStatus",
                         !.orderId = adminOrders.selectedOrder[1],
                         !.status = adminOrders.orders[adminOrders.selectedOrder[1]],
                         !.nUpdate = 1]})
    /\ UNCHANGED <<adminOrders, backendOrders, ordersMounted, shopVars, formVars>>

\* handleStatusSubmit up to its first await (the Update Status button is never disabled)
handleStatusSubmit ==
    /\ OrdersRendered
    /\ adminOrders.statusDialogOpen
    /\ submits < MaxSubmits
    /\ submits' = submits + 1
    /\ IF adminOrders.selectedOrder = <<>>
       THEN UNCHANGED calls
       ELSE calls' = calls (+) SetToBag({[NewCall("submit") EXCEPT
                         !.pc = "updateOrderStatus",
                         !.orderId = adminOrders.selectedOrder[1],
                         !.status = adminOrders.newStatus,
                         !.nUpdate = 1]})
    /\ UNCHANGED <<adminOrders, backendOrders, ordersMounted, shopVars, formVars>>

\* the answer to an updateOrderStatus call: the request's arguments are consumed
Answer(r, pc) == [r EXCEPT !.pc = pc, !.orderId = 0, !.status = "PENDING"]

\* the backend applies the update and answers, or answers with a failure
ServerUpdateOrderStatus(r, ok) ==
    /\ r.pc = "updateOrderStatus"
    /\ IF ok
       THEN /\ backendOrders' = [backendOrders EXCEPT ![r.orderId] = r.status]
            /\ calls' = Replace(r, Answer(r, "updateOk"))
       ELSE /\ calls' = Replace(r, Answer(r, "updateFail"))
            /\ UNCHANGED backendOrders
    /\ UNCHANGED <<adminOrders, ordersMounted, submits, shopVars, formVars>>

\* handleStatusSubmit closing the dialog in its catch branch as well
UpdateSettleClosing(r) ==
    /\ r.pc \in {"updateOk", "updateFail"}
    /\ IF r.pc = "updateOk"
       THEN FetchOrdersStart(r)
       ELSE /\ adminOrders' = [adminOrders EXCEPT !.error = "Failed to update order status",
                                                  !.statusDialogOpen = FALSE,
                                                  !.selectedOrder = <<>>]
            /\ calls' = Remove(r)
    /\ UNCHANGED <<backendOrders, ordersMounted, submits, shopVars, formVars>>

\* handleStatusSubmit with a catch that sends the update again
UpdateSettleRetrying(r) ==
    /\ r.pc \in {"updateOk", "updateFail"}
    /\ IF r.pc = "updateOk"
       THEN FetchOrdersStart(r)
       ELSE /\ adminOrders' = [adminOrders EXCEPT !.error = "Failed to update order status"]
            /\ calls' = Replace(r, [r EXCEPT !.pc = "updateOrderStatus", !.nUpdate = @ + 1])
    /\ UNCHANGED <<backendOrders, ordersMounted, submits, shopVars, formVars>>

\* handleStatusSubmit after `await updateOrderStatus`: on success fetchOrders(), else the catch
UpdateSettle(r) ==
    /\ r.pc \in {"updateOk", "updateFail"}
    /\ IF r.pc = "updateOk"
       THEN FetchOrdersStart(r)
       ELSE /\ adminOrders' = [adminOrders EXCEPT !.error = "Failed to update order status"]
            /\ calls' = Remove(r)
    /\ UNCHANGED <<backendOrders, ordersMounted, submits, shopVars, formVars>>

OrdersInit ==
    /\ adminOrders = AdminOrdersInit
    /\ backendOrders = [i \in OrderIds |-> "PENDING"]
    /\ calls = EmptyBag
    /\ ordersMounted = FALSE
    /\ submits = 0

OrdersNext ==
    \/ OrdersMount
    \/ \E r \in Pending, ok \in BOOLEAN : ServerGetAllOrders(r, ok)
    \/ \E r \in Pending : FetchOrdersSettle(r)
    \/ \E o \in OrderIds : handleStatusUpdate(o)
    \/ \E s \in OrderStatus : SelectStatus(s)
    \/ CancelDialog
    \/ handleStatusSubmit
    \/ \E r \in Pending, ok \in BOOLEAN : ServerUpdateOrderStatus(r, ok)
    \/ \E r \in Pending : UpdateSettle(r)

\* the behaviours in which the backend answers every call with a success
OrdersNextOk ==
    \/ OrdersMount
    \/ \E r \in Pending : ServerGetAllOrders(r, TRUE)
    \/ \E r \in Pending : FetchOrdersSettle(r)
    \/ \E o \in OrderIds : handleStatusUpdate(o)
    \/ \E s \in OrderStatus : SelectStatus(s)
    \/ CancelDialog
    \/ handleStatusSubmit
    \/ \E r \in Pending : ServerUpdateOrderStatus(r, TRUE)
    \/ \E r \in Pending : UpdateSettle(r)

(***************************************************************************)
(*                    Storefront: Home and ProductDetail                   *)
(***************************************************************************)

\* the number of products of the catalog
NumProducts == 2

\* the largest stockQuantity a product has
MaxStock == 3

\* the number of calls of the mounted screen that may be pending at once
MaxPending == 2

\* getProducts({ size: 6 })
PageSize == 6

ProductIds == 1..NumProducts

Min(a, b) == IF a <= b THEN a ELSE b

Product(p, stock) == [id |-> p, stockQuantity |-> stock]

\* the stockQuantity of the products of the featured page: 0, 3, 2, 1, ...
PageStock(p) == ((p - 1) * 3) % (MaxStock + 1)

\* the first n products, as the backend pages them
Page(n) == [k \in 1..n |-> Product(k, PageStock(k))]

HomeInit == [featuredProducts |-> <<>>, loading |-> TRUE, error |-> Null]

ProductDetailInit == [product |-> <<>>, loading |-> TRUE, error |-> Null, quantity |-> 1]

ShopPending == BagToSet(shopCalls)

ShopReplace(r, r2) == (shopCalls (-) SetToBag({r})) (+) SetToBag({r2})

ShopRemove(r) == shopCalls (-) SetToBag({r})

\* a pending call of the mounted screen.  The storefront never writes to the backend, so
\* the answer to getProductById and to addToCart (success or failure, and the data) is
\* drawn when it is delivered; the answer to getProducts travels in the record (pc "ok"
\* or "fail", and data).
ShopCall(api, arg, qty) ==
    [api |-> api, arg |-> arg, quantity |-> qty, pc |-> "sent", data |-> <<>>]

\* the routes whose screens are not modelled
Elsewhere == {"/login", "/products", "/admin/products"}

\* navigate(path) away from the mounted screen: it unmounts, React drops the state
\* updates of its pending continuations, and their console output changes nothing
Leave(path) ==
    /\ location' = path
    /\ id' = 0
    /\ home' = HomeInit
    /\ productDetail' = ProductDetailInit
    /\ shopCalls' = EmptyBag

\* the session holder: login on the login screen, logout from anywhere
Login(admin) ==
    /\ UNCHANGED <<ordersVars, formVars>>
    /\ location = "/login"
    /\ ~session.isAuthenticated
    /\ session' = [isAuthenticated |-> TRUE, isAdmin |-> admin]
    /\ UNCHANGED <<location, id, home, productDetail, shopCalls>>

Logout ==
    /\ UNCHANGED <<ordersVars, formVars>>
    /\ session.isAuthenticated
    /\ session' = [isAuthenticated |-> FALSE, isAdmin |-> FALSE]
    /\ UNCHANGED <<location, id, home, productDetail, shopCalls>>

------------------------------------------------------------------------------
\* Home

\* Home mounts: first render with the initial state, then the effect: setLoading(true),
\* setError(null), getProducts({ size: 6 })
HomeOpen ==
    /\ UNCHANGED <<ordersVars, formVars>>
    /\ location \in Elsewhere
    /\ location' = "/"
    /\ id' = 0
    /\ home' = [HomeInit EXCEPT !.loading = TRUE, !.error = Null]
    /\ productDetail' = ProductDetailInit
    /\ shopCalls' = SetToBag({ShopCall("getProducts", PageSize, 0)})
    /\ UNCHANGED session

\* the answers getProducts({ size }) may get: a page of at most `size` products, or a
\* body without content
GetProductsAnswers(size) == {<<Page(n)>> : n \in 0..Min(size, NumProducts)} \cup {<<>>}

\* response.content || []
ContentOrEmpty(data) == IF data = <<>> THEN <<>> ELSE data[1]

\* the backend answers getProducts with a body (data), or the call fails
ServerGetProducts(r, ok, data) ==
    /\ UNCHANGED <<ordersVars, formVars>>
    /\ r.api = "getProducts" /\ r.pc = "sent"
    /\ IF ok
       THEN shopCalls' = ShopReplace(r, [r EXCEPT !.pc = "ok", !.data = data])
       ELSE /\ data = <<>>
            /\ shopCalls' = ShopReplace(r, [r EXCEPT !.pc = "fail"])
    /\ UNCHANGED <<location, id, session, home, productDetail>>

\* fetchFeaturedProducts without its finally block
HomeFetchSettleKeepsLoading(r) ==
    /\ UNCHANGED <<ordersVars, formVars>>
    /\ location = "/"
    /\ r.api = "getProducts" /\ r.pc \in {"ok", "fail"}
    /\ IF r.pc = "ok"
       THEN home' = [home EXCEPT !.featuredProducts = ContentOrEmpty(r.data)]
       ELSE home' = [home EXCEPT !.error = "Failed to load featured products",
                                 !.featuredProducts = <<>>]
    /\ shopCalls' = ShopRemove(r)
    /\ UNCHANGED <<location, id, session, productDetail>>

\* fetchFeaturedProducts after its await
HomeFetchSettle(r) ==
    /\ UNCHANGED <<ordersVars, formVars>>
    /\ location = "/"
    /\ r.api = "getProducts" /\ r.pc \in {"ok", "fail"}
    /\ IF r.pc = "ok"
       THEN home' = [home EXCEPT !.featuredProducts = ContentOrEmpty(r.data),
                                 !.loading = FALSE]
       ELSE home' = [home EXCEPT !.error = "Failed to load featured products",
                                 !.featuredProducts = <<>>,
                                 !.loading = FALSE]
    /\ shopCalls' = ShopRemove(r)
    /\ UNCHANGED <<location, id, session, productDetail>>

\* what Home renders below the heading
HomeShowsProgress == home.loading

HomeShowsError == home.error # Null

HomeCards == IF home.loading THEN <<>> ELSE home.featuredProducts

\* the stock chip of a card: 'In Stock (n)' in the success colour, or 'Out of Stock' in
\* the error colour
HomeStockChip(product) ==
    IF product.stockQuantity > 0
    THEN [kind |-> "in-stock-with-count", label |-> <<"In Stock", product.stockQuantity>>,
          color |-> "success"]
    ELSE [kind |-> "out-of-stock", label |-> <<"Out of Stock">>, color |-> "error"]

\* the add-to-cart button of a card: customers only, disabled at stockQuantity 0
HomeAddEnabled(k) ==
    /\ location = "/"
    /\ k \in DOMAIN HomeCards
    /\ ~session.isAdmin
    /\ ~(HomeCards[k].stockQuantity = 0)

\* handleAddToCart(productId) of Home without the isAuthenticated check
HomeAddToCartUnchecked(k) ==
    /\ UNCHANGED <<ordersVars, formVars>>
    /\ HomeAddEnabled(k)
    /\ BagCardinality(shopCalls) < MaxPending
    /\ shopCalls' = shopCalls (+) SetToBag({ShopCall("addToCart", HomeCards[k].id, 1)})
    /\ UNCHANGED <<location, id, home, productDetail>>
    /\ UNCHANGED session

\* handleAddToCart(productId) of Home
HomeAddToCart(k) ==
    /\ UNCHANGED <<ordersVars, formVars>>
    /\ HomeAddEnabled(k)
    /\ BagCardinality(shopCalls) < MaxPending
    /\ IF ~session.isAuthenticated
       THEN Leave("/login")
       ELSE /\ shopCalls' = shopCalls (+) SetToBag({ShopCall("addToCart", HomeCards[k].id, 1)})
            /\ UNCHANGED <<location, id, home, productDetail>>
    /\ UNCHANGED session

\* the cart holder's addToCart resolves or rejects, with a catch that shows a banner
CartSettleWithBanner(r, ok) ==
    /\ UNCHANGED <<ordersVars, formVars>>
    /\ r.api = "addToCart"
    /\ shopCalls' = ShopRemove(r)
    /\ IF ok
       THEN UNCHANGED <<home, productDetail>>
       ELSE /\ home' = IF location = "/"
                       THEN [home EXCEPT !.error = "Failed to add to cart"] ELSE home
            /\ productDetail' = IF location = "/products/:id"
                                THEN [productDetail EXCEPT !.error = "Failed to add to cart"]
                                ELSE productDetail
    /\ UNCHANGED <<location, id, session>>

\* the cart holder's addToCart resolves or rejects: the handler only logs a rejection
CartSettle(r, ok) ==
    /\ UNCHANGED <<ordersVars, formVars>>
    /\ r.api = "addToCart"
    /\ shopCalls' = ShopRemove(r)
    /\ UNCHANGED <<location, id, session, home, productDetail>>

------------------------------------------------------------------------------
\* ProductDetail

\* the effect of ProductDetail for route parameter p: setLoading(true), getProductById
FetchProductStart(p) ==
    /\ BagCardinality(shopCalls) < MaxPending
    /\ id' = p
    /\ shopCalls' = shopCalls (+) SetToBag({ShopCall("getProductById", p, 0)})

\* ProductDetail mounts on /products/p: from a Home card, or from another screen
DetailOpen(p) ==
    /\ UNCHANGED <<ordersVars, formVars>>
    /\ \/ location \in Elsewhere
       \/ location = "/" /\ \E k \in DOMAIN HomeCards : HomeCards[k].id = p
    /\ location' = "/products/:id"
    /\ home' = HomeInit
    /\ productDetail' = [ProductDetailInit EXCEPT !.loading = TRUE]
    /\ id' = p
    /\ shopCalls' = SetToBag({ShopCall("getProductById", p, 0)})
    /\ UNCHANGED session

\* the route parameter changes under the mounted ProductDetail: the effect runs again
RouteChange(p) ==
    /\ UNCHANGED <<ordersVars, formVars>>
    /\ location = "/products/:id"
    /\ p # id
    /\ FetchProductStart(p)
    /\ productDetail' = [productDetail EXCEPT !.loading = TRUE]
    /\ UNCHANGED <<location, session, home>>

\* fetchProduct after its await: getProductById(parseInt(id)) resolved with the product
\* as the backend holds it, or rejected
DetailFetchSettle(r, ok, stock) ==
    /\ UNCHANGED <<ordersVars, formVars>>
    /\ location = "/products/:id"
    /\ r.api = "getProductById"
    /\ IF ok
       THEN productDetail' = [productDetail EXCEPT !.product = <<Product(r.arg, stock)>>,
                                                   !.error = Null,
                                                   !.loading = FALSE]
       ELSE /\ stock = 0
            /\ productDetail' = [productDetail EXCEPT !.error = "Failed to load product",
                                                      !.loading = FALSE]
    /\ shopCalls' = ShopRemove(r)
    /\ UNCHANGED <<location, id, session, home>>

\* ProductDetail renders the product (not the spinner, not the error alert)
DetailShowsProduct ==
    /\ location = "/products/:id"
    /\ ~productDetail.loading
    /\ ~(productDetail.error # Null \/ productDetail.product = <<>>)

Shown == productDetail.product[1]

\* product.stockQuantity > 0 && product.stockQuantity <= 5
LowStockLimit == 5

\* the out-of-stock alert under the stock chip of ProductDetail
DetailOutOfStockAlert == DetailShowsProduct /\ Shown.stockQuantity = 0

\* the low-stock alert with a limit that leaves the limit itself out
DetailLowStockAlertBelowLimit ==
    DetailShowsProduct /\ Shown.stockQuantity > 0 /\ Shown.stockQuantity < LowStockLimit

\* the low-stock alert under the stock chip of ProductDetail
DetailLowStockAlert ==
    DetailShowsProduct /\ Shown.stockQuantity > 0 /\ Shown.stockQuantity <= LowStockLimit

\* the "-" button: onClick setQuantity(Math.max(1, quantity - 1)), disabled at quantity <= 1
Decrement ==
    /\ UNCHANGED <<ordersVars, formVars>>
    /\ DetailShowsProduct
    /\ ~(productDetail.quantity <= 1)
    /\ productDetail' = [productDetail EXCEPT
           !.quantity = IF 1 >= @ - 1 THEN 1 ELSE @ - 1]
    /\ UNCHANGED <<location, id, session, home, shopCalls>>

\* the "+" button disabled one step late (quantity > stockQuantity)
IncrementOffByOne ==
    /\ UNCHANGED <<ordersVars, formVars>>
    /\ DetailShowsProduct
    /\ ~(productDetail.quantity > Shown.stockQuantity)
    /\ productDetail.quantity <= MaxStock
    /\ productDetail' = [productDetail EXCEPT !.quantity = @ + 1]
    /\ UNCHANGED <<location, id, session, home, shopCalls>>

\* the "+" button: onClick setQuantity(quantity + 1), disabled at quantity >= stockQuantity
Increment ==
    /\ UNCHANGED <<ordersVars, formVars>>
    /\ DetailShowsProduct
    /\ ~(productDetail.quantity >= Shown.stockQuantity)
    /\ productDetail' = [productDetail EXCEPT !.quantity = @ + 1]
    /\ UNCHANGED <<location, id, session, home, shopCalls>>

\* handleAddToCart of ProductDetail behind a button that is never disabled
DetailAddToCartAlwaysEnabled ==
    /\ UNCHANGED <<ordersVars, formVars>>
    /\ DetailShowsProduct
    /\ BagCardinality(shopCalls) < MaxPending
    /\ IF ~session.isAuthenticated
       THEN Leave("/login")
       ELSE IF productDetail.product = <<>>
       THEN UNCHANGED <<location, id, home, productDetail, shopCalls>>
       ELSE /\ shopCalls' = shopCalls (+)
                  SetToBag({ShopCall("addToCart", Shown.id, productDetail.quantity)})
            /\ UNCHANGED <<location, id, home, productDetail>>
    /\ UNCHANGED session

\* handleAddToCart of ProductDetail; the button is disabled at stockQuantity 0
DetailAddToCart ==
    /\ UNCHANGED <<ordersVars, formVars>>
    /\ DetailShowsProduct
    /\ ~(Shown.stockQuantity = 0)
    /\ BagCardinality(shopCalls) < MaxPending
    /\ IF ~session.isAuthenticated
       THEN Leave("/login")
       ELSE IF productDetail.product = <<>>
       THEN UNCHANGED <<location, id, home, productDetail, shopCalls>>
       ELSE /\ shopCalls' = shopCalls (+)
                  SetToBag({ShopCall("addToCart", Shown.id, productDetail.quantity)})
            /\ UNCHANGED <<location, id, home, productDetail>>
    /\ UNCHANGED session

\* "Back to Products", and the buttons of Home that lead to the product lists
GoElsewhere(path) ==
    /\ UNCHANGED <<ordersVars, formVars>>
    /\ \/ location = "/products/:id" /\ DetailShowsProduct /\ path = "/products"
       \/ location = "/" /\ path = (IF session.isAdmin THEN "/admin/products" ELSE "/products")
    /\ Leave(path)
    /\ UNCHANGED session

ShopInit ==
    /\ location = "/products"
    /\ id = 0
    /\ session = [isAuthenticated |-> FALSE, isAdmin |-> FALSE]
    /\ home = HomeInit
    /\ productDetail = ProductDetailInit
    /\ shopCalls = EmptyBag

ShopNext ==
    \/ \E admin \in BOOLEAN : Login(admin)
    \/ Logout
    \/ HomeOpen
    \/ \E r \in ShopPending, ok \in BOOLEAN, data \in GetProductsAnswers(PageSize) :
           ServerGetProducts(r, ok, data)
    \/ \E r \in ShopPending : HomeFetchSettle(r)
    \/ \E k \in 1..NumProducts : HomeAddToCart(k)
    \/ \E r \in ShopPending, ok \in BOOLEAN : CartSettle(r, ok)
    \/ \E p \in ProductIds : DetailOpen(p)
    \/ \E p \in ProductIds : RouteChange(p)
    \/ \E r \in ShopPending, ok \in BOOLEAN, stock \in 0..MaxStock :
           DetailFetchSettle(r, ok, stock)
    \/ Decrement
    \/ Increment
    \/ DetailAddToCart
    \/ \E path \in Elsewhere : GoElsewhere(path)

\* the storefront when no call of the backend fails
ShopNextOk ==
    \/ \E admin \in BOOLEAN : Login(admin)
    \/ Logout
    \/ HomeOpen
    \/ \E r \in ShopPending, data \in GetProductsAnswers(PageSize) :
           ServerGetProducts(r, TRUE, data)
    \/ \E r \in ShopPending : HomeFetchSettle(r)
    \/ \E k \in 1..NumProducts : HomeAddToCart(k)
    \/ \E r \in ShopPending : CartSettle(r, TRUE)
    \/ \E p \in ProductIds : DetailOpen(p)
    \/ \E p \in ProductIds : RouteChange(p)
    \/ \E r \in ShopPending, stock \in 0..MaxStock : DetailFetchSettle(r, TRUE, stock)
    \/ Decrement
    \/ Increment
    \/ DetailAddToCart
    \/ \E path \in Elsewhere : GoElsewhere(path)

\* the largest stockQuantity of the stock displays
MaxShownStock == 7

\* pages of featured products with every stockQuantity up to MaxShownStock
StockPages ==
    UNION {{<<[k \in 1..n |-> Product(k, f[k])]>> : f \in [1..n -> 0..MaxShownStock]} :
              n \in 0..Min(PageSize, NumProducts)}

\* the storefront as a visitor browses it, with every stockQuantity up to MaxShownStock
\* and no failing call
StockNext ==
    \/ HomeOpen
    \/ \E r \in ShopPending, data \in StockPages : ServerGetProducts(r, TRUE, data)
    \/ \E r \in ShopPending : HomeFetchSettle(r)
    \/ \E p \in ProductIds : DetailOpen(p)
    \/ \E r \in ShopPending, stock \in 0..MaxShownStock : DetailFetchSettle(r, TRUE, stock)
    \/ \E path \in Elsewhere : GoElsewhere(path)

(***************************************************************************)
(*                            AdminProductForm                             *)
(***************************************************************************)

\* the number of createProduct calls followed
MaxCreates == 2

\* setTimeout(() => navigate('/admin/products'), 1500)
NavigateDelay == 1500

\* Texts of the price and stock inputs are sequences of characters.
DigitChars == <<"0", "1", "2", "3", "4", "5", "6", "7", "8", "9">>

IsDigit(c) == \E d \in 1..10 : DigitChars[d] = c

DigitVal(c) == (CHOOSE d \in 1..10 : DigitChars[d] = c) - 1

WhiteSpace == {" "}

RECURSIVE SkipWhiteSpace(_, _)
\* the first position from i on that holds no white space
SkipWhiteSpace(s, i) ==
    IF i <= Len(s) /\ s[i] \in WhiteSpace THEN SkipWhiteSpace(s, i + 1) ELSE i

RECURSIVE DigitsEnd(_, _)
\* the position after the run of digits that starts at i
DigitsEnd(s, i) == IF i <= Len(s) /\ IsDigit(s[i]) THEN DigitsEnd(s, i + 1) ELSE i

RECURSIVE DigitsValue(_, _, _)
\* the number written by the digits of s at positions i..j-1
DigitsValue(s, i, j) ==
    IF j <= i THEN 0 ELSE DigitsValue(s, i, j - 1) * 10 + DigitVal(s[j - 1])

Pow10(n) == IF n = 0 THEN 1 ELSE IF n = 1 THEN 10 ELSE IF n = 2 THEN 100 ELSE 1000

HasSign(s, i) == i <= Len(s) /\ s[i] \in {"+", "-"}

NaN == [nan |-> TRUE, sign |-> 1, mant |-> 0, exp10 |-> 0]

\* parseFloat(text): the longest prefix, after white space, that is a decimal literal
\* (sign, digits, fraction, exponent); NaN if there is none.  The number is
\* sign * mant * 10^exp10.  (The literal Infinity is outside the characters modelled.)
parseFloat(s) ==
    LET b  == SkipWhiteSpace(s, 1)
        i0 == IF HasSign(s, b) THEN b + 1 ELSE b
        ie == DigitsEnd(s, i0)
        dot == ie <= Len(s) /\ s[ie] = "."
        fe == IF dot THEN DigitsEnd(s, ie + 1) ELSE ie
        nfrac == IF dot THEN fe - (ie + 1) ELSE 0
        ok == ie > i0 \/ nfrac > 0
        hasE == fe <= Len(s) /\ s[fe] \in {"e", "E"}
        x0 == IF hasE /\ HasSign(s, fe + 1) THEN fe + 2 ELSE fe + 1
        xe == IF hasE THEN DigitsEnd(s, x0) ELSE x0
        expOk == hasE /\ xe > x0
        ex == IF expOk
              THEN (IF s[fe + 1] = "-" THEN -1 ELSE 1) * DigitsValue(s, x0, xe)
              ELSE 0
    IN  IF ~ok THEN NaN
        ELSE [nan |-> FALSE,
              sign |-> IF HasSign(s, b) /\ s[b] = "-" THEN -1 ELSE 1,
              mant |-> DigitsValue(s, i0, ie) * Pow10(nfrac) + DigitsValue(s, ie + 1, fe),
              exp10 |-> ex - nfrac]

\* parseInt(text) without radix: the longest prefix, after white space, that is a sign
\* and decimal digits; NaN if there are no digits.  (The 0x prefix is outside the
\* characters modelled.)
parseInt(s) ==
    LET b  == SkipWhiteSpace(s, 1)
        i0 == IF HasSign(s, b) THEN b + 1 ELSE b
        ie == DigitsEnd(s, i0)
    IN  IF ie = i0 THEN NaN
        ELSE [nan |-> FALSE,
              sign |-> IF HasSign(s, b) /\ s[b] = "-" THEN -1 ELSE 1,
              mant |-> DigitsValue(s, i0, ie),
              exp10 |-> 0]

isNaN(x) == x.nan

\* x <= 0 and x < 0 for a number that is not NaN (-0 is 0)
LeqZero(x) == x.sign = -1 \/ x.mant = 0

LtZero(x) == x.sign = -1 /\ x.mant # 0

\* the texts typed into the price input: "", "5", "-5", "abc", "0", "0.5", "5a"
PriceTexts ==
    {<<>>, <<"5">>, <<"-", "5">>, <<"a", "b", "c">>, <<"0">>, <<"0", ".", "5">>,
     <<"5", "a">>}

\* the texts typed into the stock input: "", "7", "-1", "0", "3.7", "a"
StockTexts ==
    {<<>>, <<"7">>, <<"-", "1">>, <<"0">>, <<"3", ".", "7">>, <<"a">>}

\* the fields edited in this model, and the values typed into them; the other fields
\* (layout, switchType, keycapMaterial, caseMaterial, rgbSupport, wirelessSupport, imageUrl) keep
\* their initial value
FieldValues ==
    [name |-> {"", "K2"}, description |-> {"", "75%"}, brand |-> {"", "Keychron"},
     price |-> PriceTexts, stockQuantity |-> StockTexts]

FormDataInit ==
    [name |-> "", description |-> "", price |-> <<>>, brand |-> "",
     layout |-> "FULL_SIZE", switchType |-> "", keycapMaterial |-> "",
     caseMaterial |-> "", rgbSupport |-> FALSE, wirelessSupport |-> FALSE,
     stockQuantity |-> <<>>, imageUrl |-> ""]

AdminProductFormInit ==
    [loading |-> FALSE, error |-> Null, success |-> Null, keyboardLayouts |-> <<>>,
     formData |-> FormDataInit]

FormMounted == formLocation = "/admin/products/new"

\* !value of a string: of a text field, and of the price and stock inputs
Empty(text) == text = ""

EmptyText(text) == text = <<>>

\* the mount effect: fetchKeyboardLayouts up to its await
FormMount ==
    /\ FormMounted
    /\ layoutsCall = "idle"
    /\ layoutsCall' = "sent"
    /\ UNCHANGED <<adminProductForm, formLocation, createCall, timers, created>>
    /\ UNCHANGED <<ordersVars, shopVars>>

\* fetchKeyboardLayouts after its await: the layouts, or a logged failure.  A state
\* update of an unmounted component is dropped.
LayoutsSettle(ok) ==
    /\ layoutsCall = "sent"
    /\ layoutsCall' = "done"
    /\ IF ok /\ FormMounted
       THEN adminProductForm' =
                [adminProductForm EXCEPT !.keyboardLayouts = <<"FULL_SIZE", "TKL">>]
       ELSE UNCHANGED adminProductForm
    /\ UNCHANGED <<formLocation, createCall, timers, created>>
    /\ UNCHANGED <<ordersVars, shopVars>>

\* handleInputChange(field, value)
handleInputChange(field, value) ==
    /\ FormMounted
    /\ adminProductForm.formData[field] # value
    /\ adminProductForm' = [adminProductForm EXCEPT !.formData[field] = value]
    /\ UNCHANGED <<formLocation, createCall, layoutsCall, timers, created>>
    /\ UNCHANGED <<ordersVars, shopVars>>

\* the validations of handleSubmit without the check of the price
ValidationErrorNoPrice(fd) ==
    IF Empty(fd.name) \/ Empty(fd.description) \/ EmptyText(fd.price) \/ Empty(fd.brand)
           \/ EmptyText(fd.stockQuantity)
    THEN "Please fill in all required fields"
    ELSE IF isNaN(parseInt(fd.stockQuantity)) \/ LtZero(parseInt(fd.stockQuantity))
    THEN "Please enter a valid stock quantity"
    ELSE Null

\* the three validations of handleSubmit, in order: the message set, or Null when all pass
ValidationError(fd) ==
    IF Empty(fd.name) \/ Empty(fd.description) \/ EmptyText(fd.price) \/ Empty(fd.brand)
           \/ EmptyText(fd.stockQuantity)
    THEN "Please fill in all required fields"
    ELSE IF isNaN(parseFloat(fd.price)) \/ LeqZero(parseFloat(fd.price))
    THEN "Please enter a valid price"
    ELSE IF isNaN(parseInt(fd.stockQuantity)) \/ LtZero(parseInt(fd.stockQuantity))
    THEN "Please enter a valid stock quantity"
    ELSE Null

\* { ...formData, price: parseFloat(formData.price), stockQuantity: parseInt(...) }:
\* the two coerced fields of the request body
ProductData(fd) ==
    [price |-> parseFloat(fd.price), stockQuantity |-> parseInt(fd.stockQuantity)]

\* handleSubmit up to its await; the submit button is disabled while loading
handleSubmit ==
    /\ FormMounted
    /\ ~adminProductForm.loading
    /\ IF ValidationError(adminProductForm.formData) # Null
       THEN /\ adminProductForm' = [adminProductForm EXCEPT
                   !.error = ValidationError(adminProductForm.formData)]
            /\ UNCHANGED createCall
       ELSE /\ created + Len(createCall) < MaxCreates
            /\ adminProductForm' = [adminProductForm EXCEPT !.loading = TRUE,
                                                            !.error = Null]
            /\ createCall' = Append(createCall,
                   [pc |-> "sent", productData |-> ProductData(adminProductForm.formData)])
    /\ UNCHANGED <<formLocation, layoutsCall, timers, created>>
    /\ UNCHANGED <<ordersVars, shopVars>>

\* the backend reads the request, accepts the product and answers, or answers with a
\* failure
ServerCreateProduct(ok) ==
    /\ createCall # <<>>
    /\ createCall[1].pc = "sent"
    /\ IF ok
       THEN /\ createCall' = <<[pc |-> "ok", productData |-> <<>>]>>
            /\ created' = created + 1
       ELSE /\ createCall' = <<[pc |-> "fail", productData |-> <<>>]>>
            /\ UNCHANGED created
    /\ UNCHANGED <<adminProductForm, formLocation, layoutsCall, timers>>
    /\ UNCHANGED <<ordersVars, shopVars>>

\* what a setter does to the cells: nothing once the component is unmounted
SetForm(s) == IF FormMounted THEN s ELSE adminProductForm

\* handleSubmit after its await, with a catch that also resets the form
CreateSettleResetting ==
    /\ createCall # <<>>
    /\ createCall[1].pc \in {"ok", "fail"}
    /\ createCall' = <<>>
    /\ IF createCall[1].pc = "ok"
       THEN /\ adminProductForm' = SetForm([adminProductForm EXCEPT
                   !.success = "Product created successfully", !.loading = FALSE])
            /\ timers' = Append(timers, NavigateDelay)
       ELSE /\ adminProductForm' = SetForm([adminProductForm EXCEPT
                   !.error = "Failed to create product", !.loading = FALSE,
                   !.formData = FormDataInit])
            /\ UNCHANGED timers
    /\ UNCHANGED <<formLocation, layoutsCall, created>>
    /\ UNCHANGED <<ordersVars, shopVars>>

\* handleSubmit after its await, with the setTimeout moved to the finally block
CreateSettleAlwaysNavigates ==
    /\ createCall # <<>>
    /\ createCall[1].pc \in {"ok", "fail"}
    /\ createCall' = <<>>
    /\ IF createCall[1].pc = "ok"
       THEN adminProductForm' = SetForm([adminProductForm EXCEPT
                   !.success = "Product created successfully", !.loading = FALSE])
       ELSE adminProductForm' = SetForm([adminProductForm EXCEPT
                   !.error = "Failed to create product", !.loading = FALSE])
    /\ timers' = Append(timers, NavigateDelay)
    /\ UNCHANGED <<formLocation, layoutsCall, created>>
    /\ UNCHANGED <<ordersVars, shopVars>>

\* handleSubmit after its await: setSuccess and setTimeout, or the catch; then finally
CreateSettle ==
    /\ createCall # <<>>
    /\ createCall[1].pc \in {"ok", "fail"}
    /\ createCall' = <<>>
    /\ IF createCall[1].pc = "ok"
       THEN /\ adminProductForm' = SetForm([adminProductForm EXCEPT
                   !.success = "Product created successfully", !.loading = FALSE])
            /\ timers' = Append(timers, NavigateDelay)
       ELSE /\ adminProductForm' = SetForm([adminProductForm EXCEPT
                   !.error = "Failed to create product", !.loading = FALSE])
            /\ UNCHANGED timers
    /\ UNCHANGED <<formLocation, layoutsCall, created>>
    /\ UNCHANGED <<ordersVars, shopVars>>

\* a timer set by handleSubmit expires: navigate('/admin/products')
TimerFires ==
    /\ timers # <<>>
    /\ timers' = Tail(timers)
    /\ formLocation' = "/admin/products"
    /\ UNCHANGED <<adminProductForm, createCall, layoutsCall, created>>
    /\ UNCHANGED <<ordersVars, shopVars>>

\* "Back to Products" (never disabled) and Cancel (disabled while loading)
FormBack(cancel) ==
    /\ FormMounted
    /\ cancel => ~adminProductForm.loading
    /\ formLocation' = "/admin/products"
    /\ UNCHANGED <<adminProductForm, createCall, layoutsCall, timers, created>>
    /\ UNCHANGED <<ordersVars, shopVars>>

FormInit ==
    /\ adminProductForm = AdminProductFormInit
    /\ formLocation = "/admin/products/new"
    /\ createCall = <<>>
    /\ layoutsCall = "idle"
    /\ timers = <<>>
    /\ created = 0

FormNext ==
    \/ FormMount
    \/ \E ok \in BOOLEAN : LayoutsSettle(ok)
    \/ \E field \in DOMAIN FieldValues : \E value \in FieldValues[field] :
           handleInputChange(field, value)
    \/ handleSubmit
    \/ \E ok \in BOOLEAN : ServerCreateProduct(ok)
    \/ CreateSettle
    \/ TimerFires
    \/ \E cancel \in BOOLEAN : FormBack(cancel)

Init == OrdersInit /\ ShopInit /\ FormInit

SpecOrders == Init /\ [][OrdersNext]_vars

SpecOrdersOk == Init /\ [][OrdersNextOk]_vars

SpecShop == Init /\ [][ShopNext]_vars

SpecShopOk == Init /\ [][ShopNextOk]_vars

SpecStock == Init /\ [][StockNext]_vars

\* AdminOrders as an admin uses it on the first order, choosing between two statuses
AppOrdersNext ==
    \/ OrdersMount
    \/ \E r \in Pending, ok \in BOOLEAN : ServerGetAllOrders(r, ok)
    \/ \E r \in Pending : FetchOrdersSettle(r)
    \/ handleStatusUpdate(1)
    \/ \E s \in {"PENDING", "CONFIRMED"} : SelectStatus(s)
    \/ CancelDialog
    \/ handleStatusSubmit
    \/ \E r \in Pending, ok \in BOOLEAN : ServerUpdateOrderStatus(r, ok)
    \/ \E r \in Pending : UpdateSettle(r)

\* the application shows one screen at a time: the router mounts AdminOrders, a
\* storefront screen or AdminProductForm, and the other screens stay as they start
AppNext ==
    \/ ShopInit /\ FormInit /\ AppOrdersNext
    \/ OrdersInit /\ FormInit /\ ShopNext
    \/ OrdersInit /\ ShopInit /\ FormNext

SpecApp == Init /\ [][AppNext]_vars

SpecForm == Init /\ [][FormNext]_vars

(***************************************************************************)
(*                         Claims about AdminOrders                        *)
(***************************************************************************)

\* the pending invocation r ends in this step
Finishes(r) == calls' = Remove(r)

\* a handleStatusSubmit invocation that ends in this step
SubmitFinishes(r) == r.kind = "submit" /\ Finishes(r)

\* the positions of an invocation after fetchOrders has made its call
InFetch == {"getAllOrders", "getAllOrdersOk", "getAllOrdersFail"}

\* C1 as stated: every confirmation (handleStatusSubmit on a selected order) has made
\* exactly one updateOrderStatus call and exactly one getAllOrders call when it ends.
C1_OneUpdateThenOneFetch ==
    [][\A r \in Pending : SubmitFinishes(r) => r.nUpdate = 1 /\ r.nFetch = 1]_vars

\* C1 (amended): a confirmation issues exactly one updateOrderStatus call, carrying the
\* selected order's id and the status selected in the dialog at the click; exactly one
\* getAllOrders call follows it if the update succeeds and none if it fails.  A click
\* made while an earlier call is pending is a confirmation of its own.
C1_OneUpdateAndFetchOnSuccess ==
    /\ [](\A r \in Pending : r.kind = "submit" =>
             /\ r.nUpdate = 1
             /\ r.nFetch = IF r.pc \in InFetch THEN 1 ELSE 0)
    /\ [][/\ \A r \in Pending : SubmitFinishes(r) =>
                /\ r.nUpdate = 1
                /\ r.nFetch = IF r.pc = "updateFail" THEN 0 ELSE 1
          /\ (submits' # submits /\ adminOrders.selectedOrder # <<>>) =>
                /\ BagCardinality(calls') = BagCardinality(calls) + 1
                /\ \E r \in BagToSet(calls') :
                       /\ CopiesIn(r, calls') = CopiesIn(r, calls) + 1
                       /\ r.pc = "updateOrderStatus"
                       /\ r.orderId = adminOrders.selectedOrder[1]
                       /\ r.status = adminOrders.newStatus
                       /\ r.nUpdate = 1 /\ r.nFetch = 0]_vars

\* C1 witness: a confirmation sent CANCELLED for order 2, the update succeeded and the
\* answer of its one re-fetch is on its way while the backend holds the new status
C1_Witness ==
    /\ backendOrders[2] = "CANCELLED"
    /\ \E r \in Pending : r.kind = "submit" /\ r.pc = "getAllOrdersOk"
                             /\ r.nUpdate = 1 /\ r.nFetch = 1
                             /\ r.data[2] = "CANCELLED"

\* C2 as stated: when a confirmation ends, after a success or after a failure of
\* updateOrderStatus, the status dialog is closed.
C2_DialogClosesRegardless ==
    [][\A r \in Pending : SubmitFinishes(r) => ~adminOrders'.statusDialogOpen]_vars

\* C2 (amended): a confirmation closes the dialog (and clears the selected order) exactly
\* when updateOrderStatus succeeded, whether or not the re-fetch succeeds; when
\* updateOrderStatus fails, the error banner is set and the dialog is left as it was.
C2_DialogClosesOnUpdateSuccess ==
    [][\A r \in Pending : SubmitFinishes(r) =>
          IF r.pc = "updateFail"
          THEN /\ adminOrders'.statusDialogOpen = adminOrders.statusDialogOpen
               /\ adminOrders'.selectedOrder = adminOrders.selectedOrder
               /\ adminOrders'.error = "Failed to update order status"
          ELSE /\ ~adminOrders'.statusDialogOpen
               /\ adminOrders'.selectedOrder = <<>>]_vars

\* C2 witness: the update failed, nothing is pending, the banner is shown and the dialog
\* is still open on the selected order
C2_Witness ==
    /\ calls = EmptyBag
    /\ submits > 0
    /\ adminOrders.error = "Failed to update order status"
    /\ adminOrders.statusDialogOpen
    /\ adminOrders.selectedOrder # <<>>
    /\ ~adminOrders.loading

\* C4 as stated: when the last pending call settles, every call having succeeded, the
\* status shown for each order is the backend's status of that order.
C4_RefetchRestoresConsistency ==
    [][\A r \in Pending :
          (r.pc = "getAllOrdersOk" /\ Finishes(r) /\ calls' = EmptyBag)
              => adminOrders'.orders = backendOrders']_vars

(***************************************************************************)
(*                       Claims about the storefront                       *)
(***************************************************************************)

FetchPending == \E r \in ShopPending : r.api = "getProductById"

\* C3 as stated: once every getProductById call has settled, the product held by
\* ProductDetail (shown without an error) is the one of the current route id.
C3_StaleFetchDiscarded ==
    (/\ location = "/products/:id"
     /\ ~FetchPending
     /\ productDetail.error = Null
     /\ productDetail.product # <<>>) => Shown.id = id

AddToCartClick == (\E k \in 1..NumProducts : HomeAddToCart(k)) \/ DetailAddToCart

\* a step that hands a call to the cart holder's addToCart
CartCallAdded ==
    \E r \in BagToSet(shopCalls') :
        r.api = "addToCart" /\ CopiesIn(r, shopCalls') > CopiesIn(r, shopCalls)

\* C6: an add-to-cart click made while the session is unauthenticated navigates to
\* /login and hands nothing to the cart holder; every addToCart call is made by a click
\* handled while isAuthenticated is true.
C6_UnauthenticatedNeverAddsToCart ==
    [][/\ (AddToCartClick /\ ~session.isAuthenticated) =>
              (location' = "/login" /\ ~CartCallAdded)
       /\ CartCallAdded => session.isAuthenticated]_vars

\* C6 witness: the login screen, reached by an unauthenticated add-to-cart click (no
\* other step of this model leads to /login)
C6_Witness ==
    /\ location = "/login"
    /\ ~session.isAuthenticated
    /\ shopCalls = EmptyBag

GetProductsPending == {r \in ShopPending : r.api = "getProducts"}

\* C10: on a mounted Home, loading is true exactly while its one getProducts call (size
\* 6) is pending; while loading neither cards nor the error banner are rendered; loading
\* never becomes true again; after a failure the error is the static message and the
\* list is empty; after a success the error is null and there is one card per product
\* of the answer.
C10_HomeStateMachine ==
    /\ [](location = "/" =>
            /\ home.loading <=> GetProductsPending # {}
            /\ \A r \in GetProductsPending :
                   r.arg = PageSize /\ BagCardinality(shopCalls) = 1
            /\ home.loading => HomeShowsProgress /\ ~HomeShowsError /\ HomeCards = <<>>
            /\ ~home.loading =>
                   /\ ~HomeShowsProgress
                   /\ \/ home.error = Null
                      \/ /\ home.error = "Failed to load featured products"
                         /\ home.featuredProducts = <<>>)
    /\ [][/\ (location # "/" /\ location' = "/") => home'.loading
          /\ (location = "/" /\ location' = "/" /\ ~home.loading) => ~home'.loading
          /\ \A r \in GetProductsPending :
                 (location' = "/" /\ shopCalls' = ShopRemove(r)) =>
                     IF r.pc = "ok"
                     THEN /\ home'.error = Null
                          /\ HomeCards' = ContentOrEmpty(r.data)
                     ELSE /\ home'.error = "Failed to load featured products"
                          /\ HomeCards' = <<>>]_vars

\* C10 witness: Home has left loading with a full page: one card per product, no error
C10_Witness ==
    /\ location = "/"
    /\ ~home.loading
    /\ home.error = Null
    /\ Len(HomeCards) = 2
    /\ shopCalls = EmptyBag

(***************************************************************************)
(*                   Claims about AdminProductForm                         *)
(***************************************************************************)

\* the five required fields hold text
RequiredFilled(fd) ==
    /\ fd.name # "" /\ fd.description # "" /\ fd.brand # ""
    /\ fd.price # <<>> /\ fd.stockQuantity # <<>>

\* the price text parses to a number > 0 and the stock text to an integer >= 0
NumbersValid(fd) ==
    /\ ~parseFloat(fd.price).nan
    /\ parseFloat(fd.price).sign = 1 /\ parseFloat(fd.price).mant > 0
    /\ ~parseInt(fd.stockQuantity).nan
    /\ parseInt(fd.stockQuantity).sign = 1 \/ parseInt(fd.stockQuantity).mant = 0

ValidationMessages ==
    {"Please fill in all required fields", "Please enter a valid price",
     "Please enter a valid stock quantity"}

\* a submit that ends in handleSubmit's validation
ValidationFails == handleSubmit /\ createCall' = createCall

\* a submit that ends in the catch of handleSubmit, on the mounted form
CreateFails == CreateSettle /\ createCall[1].pc = "fail" /\ FormMounted

\* C7: handleSubmit issues a createProduct call only if the required fields are
\* non-empty, the price parses to a number > 0 and the stock to an integer >= 0; for
\* every other input (a required field empty, a price "-5" or "abc", a stock "-1") it
\* sets a validation message and no call is made, and nothing else issues a call.
C7_SubmitValidates ==
    [][LET fd == adminProductForm.formData
       IN  /\ createCall' # createCall /\ Len(createCall') > Len(createCall)
                => handleSubmit /\ RequiredFilled(fd) /\ NumbersValid(fd)
           /\ handleSubmit /\ ~(RequiredFilled(fd) /\ NumbersValid(fd))
                => /\ adminProductForm'.error \in ValidationMessages
                   /\ createCall' = createCall
                   /\ created' = created
                   /\ ~adminProductForm'.loading
           /\ handleSubmit /\ (\/ fd.price \in {<<"-", "5">>, <<"a", "b", "c">>}
                               \/ fd.stockQuantity = <<"-", "1">>
                               \/ fd.name = "")
                => createCall' = createCall /\ adminProductForm'.error # Null
      ]_vars

\* C7: after a product was created, the stock was edited to "-1" and the form submitted
\* again: the stock message is shown and no call is pending.
C7_Witness ==
    /\ FormMounted
    /\ created = 1
    /\ createCall = <<>>
    /\ adminProductForm.formData.stockQuantity = <<"-", "1">>
    /\ adminProductForm.error = "Please enter a valid stock quantity"

\* C8: no step of a submit changes formData; after a submit has ended in a validation
\* failure or in a createProduct failure the fields are what they were, the error is
\* set, and the submit button is rendered and enabled again.
C8_SubmitPreservesForm ==
    /\ [][handleSubmit \/ (\E ok \in BOOLEAN : ServerCreateProduct(ok)) \/ CreateSettle
             => adminProductForm'.formData = adminProductForm.formData]_vars
    /\ [][ValidationFails \/ CreateFails
             => /\ adminProductForm'.formData = adminProductForm.formData
                /\ adminProductForm'.error # Null
                /\ formLocation' = "/admin/products/new"
                /\ ~adminProductForm'.loading]_vars

\* C8: a createProduct call has failed and the form still holds what was typed
C8_Witness ==
    /\ FormMounted
    /\ adminProductForm.error = "Failed to create product"
    /\ ~adminProductForm.loading
    /\ adminProductForm.formData.name = "K2"
    /\ adminProductForm.formData.price = <<"0", ".", "5">>
    /\ adminProductForm.formData.stockQuantity = <<"0">>

\* C9: a navigation is scheduled only by the step of handleSubmit that follows a
\* successful createProduct, which also sets the success message, and with the fixed
\* delay; the success message is set by no other step; a submit that fails validation
\* or whose createProduct fails leaves success, the timers and the route alone; and a
\* scheduled navigation happens when its timer expires, to the admin product list.
C9_NavigationOnlyAfterSuccess ==
    /\ [][timers' # timers /\ Len(timers') > Len(timers)
             => /\ CreateSettle /\ createCall[1].pc = "ok"
                /\ timers' = Append(timers, NavigateDelay)
                /\ FormMounted => adminProductForm'.success = "Product created successfully"
          ]_vars
    /\ [][adminProductForm'.success # adminProductForm.success
             => CreateSettle /\ createCall[1].pc = "ok"]_vars
    /\ [][ValidationFails \/ (CreateSettle /\ createCall[1].pc = "fail")
             => /\ adminProductForm'.success = adminProductForm.success
                /\ timers' = timers
                /\ formLocation' = formLocation]_vars
    /\ [][formLocation' # formLocation
             => \/ \E cancel \in BOOLEAN : FormBack(cancel)
                \/ /\ timers # <<>> /\ Head(timers) = NavigateDelay
                   /\ timers' = Tail(timers)
                   /\ formLocation' = "/admin/products"]_vars

\* C9: the product was created, the message shown, and the timer has taken the admin to
\* the product list
C9_Witness ==
    /\ formLocation = "/admin/products"
    /\ created = 1
    /\ timers = <<>>
    /\ createCall = <<>>
    /\ adminProductForm.success = "Product created successfully"
    /\ adminProductForm.error = Null

(***************************************************************************)
(*              Claims about stock, the cart and retries                   *)
(***************************************************************************)

\* the addToCart calls a step hands to the cart holder
CartCallsAdded ==
    {r \in BagToSet(shopCalls') :
        r.api = "addToCart" /\ CopiesIn(r, shopCalls') > CopiesIn(r, shopCalls)}

\* C11: no step hands the cart holder a call for a product that the screen shows with
\* stockQuantity 0 (a Home card or the product of ProductDetail), and while
\* ProductDetail shows such a product no step raises the quantity.
C11_OutOfStockDisabled ==
    [][/\ \A r \in CartCallsAdded :
              IF location = "/"
              THEN \E k \in DOMAIN HomeCards :
                       HomeCards[k].id = r.arg /\ HomeCards[k].stockQuantity > 0
              ELSE DetailShowsProduct /\ Shown.id = r.arg /\ Shown.stockQuantity > 0
       /\ (/\ DetailShowsProduct /\ Shown.stockQuantity = 0
           /\ location' = location /\ productDetail'.product = productDetail.product)
              => productDetail'.quantity <= productDetail.quantity]_vars

\* C11 witness: a signed-in customer looks at an out-of-stock product on ProductDetail,
\* with a quantity left above 1 by an earlier product of the same screen instance
C11_Witness ==
    /\ DetailShowsProduct
    /\ Shown.stockQuantity = 0
    /\ productDetail.quantity = 2
    /\ session.isAuthenticated /\ ~session.isAdmin
    /\ shopCalls = EmptyBag

\* C12: for every product ProductDetail shows, the low-stock alert is rendered iff
\* 1 <= stockQuantity <= 5, the out-of-stock alert iff stockQuantity = 0, neither above
\* 5, and never both.
C12_DetailStockWarnings ==
    DetailShowsProduct =>
        /\ DetailLowStockAlert <=> (1 <= Shown.stockQuantity /\ Shown.stockQuantity <= 5)
        /\ DetailOutOfStockAlert <=> Shown.stockQuantity = 0
        /\ Shown.stockQuantity > 5 => ~DetailLowStockAlert /\ ~DetailOutOfStockAlert
        /\ ~(DetailLowStockAlert /\ DetailOutOfStockAlert)

\* C12 witness: a product with 5 in stock is shown with the low-stock alert
C12_Witness ==
    /\ DetailShowsProduct
    /\ Shown.stockQuantity = 5
    /\ DetailLowStockAlert
    /\ ~DetailOutOfStockAlert

\* C13 as stated: the stock chip of every Home card is out-of-stock at stockQuantity 0,
\* low-stock-warning from 1 to 5, and in-stock-with-count above.
C13_HomeStockBadge ==
    location = "/" =>
        \A k \in DOMAIN HomeCards :
            HomeStockChip(HomeCards[k]).kind =
                IF HomeCards[k].stockQuantity = 0 THEN "out-of-stock"
                ELSE IF HomeCards[k].stockQuantity <= 5 THEN "low-stock-warning"
                ELSE "in-stock-with-count"

\* C14: when an addToCart call rejects, on Home and on ProductDetail, the step leaves
\* the view state of both screens (loading, error, product data, quantity), the route
\* and the session as they were, shows no error banner that was not there, and issues
\* no call: the pending calls are the earlier ones without the rejected one.
C14_FailedAddToCartIsSilent ==
    [][\A r \in ShopPending :
           CartSettle(r, FALSE) =>
               /\ home' = home
               /\ productDetail' = productDetail
               /\ location' = location /\ id' = id
               /\ HomeShowsError' = HomeShowsError
               /\ DetailShowsProduct' = DetailShowsProduct
               /\ shopCalls' = ShopRemove(r)]_vars

\* C14 witness: ProductDetail shows a product with quantity 2 while its addToCart call
\* is with the cart holder, which may reject it
C14_Witness ==
    /\ DetailShowsProduct
    /\ productDetail.quantity = 2
    /\ \E r \in ShopPending : r.api = "addToCart" /\ r.arg = Shown.id /\ r.quantity = 2

\* the API calls a step issues, per screen
IssuedOrders ==
    {r \in BagToSet(calls') :
        /\ r.pc \in {"getAllOrders", "updateOrderStatus"}
        /\ CopiesIn(r, calls') > CopiesIn(r, calls)}

IssuedShop ==
    {r \in BagToSet(shopCalls') :
        r.pc = "sent" /\ CopiesIn(r, shopCalls') > CopiesIn(r, shopCalls)}

IssuedForm ==
    (IF Len(createCall') > Len(createCall) THEN {"createProduct"} ELSE {})
        \cup (IF layoutsCall' = "sent" /\ layoutsCall # "sent"
              THEN {"getKeyboardLayouts"} ELSE {})

\* a step in which the backend fails a call, or a screen handles the failure of a call
FailureStep ==
    \/ \E r \in Pending : \/ ServerGetAllOrders(r, FALSE)
                          \/ ServerUpdateOrderStatus(r, FALSE)
                          \/ r.pc = "getAllOrdersFail" /\ FetchOrdersSettle(r)
                          \/ r.pc = "updateFail" /\ UpdateSettle(r)
    \/ \E r \in ShopPending : \/ ServerGetProducts(r, FALSE, <<>>)
                              \/ r.pc = "fail" /\ HomeFetchSettle(r)
                              \/ DetailFetchSettle(r, FALSE, 0)
                              \/ CartSettle(r, FALSE)
    \/ ServerCreateProduct(FALSE)
    \/ createCall # <<>> /\ createCall[1].pc = "fail" /\ CreateSettle
    \/ LayoutsSettle(FALSE)

\* a mount, a route change or a user action that calls the backend, and the re-fetch
\* that handleStatusSubmit makes after a successful update
CallingStep ==
    \/ OrdersMount
    \/ handleStatusSubmit
    \/ \E r \in Pending : r.pc = "updateOk" /\ UpdateSettle(r)
    \/ HomeOpen
    \/ \E k \in 1..NumProducts : HomeAddToCart(k)
    \/ \E p \in ProductIds : DetailOpen(p) \/ RouteChange(p)
    \/ DetailAddToCart
    \/ FormMount
    \/ handleSubmit

\* C15: a step in which a call fails or its failure is handled issues no call; a call
\* is issued only by a mount, a route change or a user action (and by the one re-fetch
\* after a successful status update), one call per step; and no invocation of a
\* handler makes more than one call of a kind.
C15_NoAutomaticRetry ==
    /\ [][/\ FailureStep =>
                 IssuedOrders = {} /\ IssuedShop = {} /\ IssuedForm = {}
          /\ (IssuedOrders # {} \/ IssuedShop # {} \/ IssuedForm # {}) =>
                 /\ CallingStep
                 /\ Cardinality(IssuedOrders) + Cardinality(IssuedShop)
                        + Cardinality(IssuedForm) = 1
                 /\ BagCardinality(calls') <= BagCardinality(calls) + 1
                 /\ \/ BagCardinality(shopCalls') <= BagCardinality(shopCalls) + 1
                    \/ BagCardinality(shopCalls') = 1]_vars
    /\ [](\A r \in Pending : r.nUpdate <= 1 /\ r.nFetch <= 1)

\* C15 witness: the re-fetch after a successful status update has failed, the banner is
\* shown and nothing is in flight
C15_Witness ==
    /\ submits = 1
    /\ calls = EmptyBag
    /\ adminOrders.error = "Failed to load orders"
    /\ ~adminOrders.loading
    /\ backendOrders[1] = "CONFIRMED"

\* C16: whenever the status dialog opens, it opens on an order of the table with
\* selectedOrder set to that order and the pending status equal to the status the
\* table shows for it, whatever selectedOrder and newStatus held before; nothing else
\* of the view state changes.
C16_DialogOpensPrePopulated ==
    [][(~adminOrders.statusDialogOpen /\ adminOrders'.statusDialogOpen) =>
           \E o \in DOMAIN adminOrders.orders :
               /\ adminOrders'.selectedOrder = <<o>>
               /\ adminOrders'.newStatus = adminOrders.orders[o]
               /\ adminOrders'.orders = adminOrders.orders
               /\ adminOrders'.error = adminOrders.error]_vars

\* C16 witness: order 1 was set to SHIPPED through the dialog, a later update has
\* failed, and the dialog is open again on order 2 with that order's own status
C16_Witness ==
    /\ adminOrders.statusDialogOpen
    /\ adminOrders.selectedOrder = <<2>>
    /\ adminOrders.orders = <<"SHIPPED", "PENDING">>
    /\ adminOrders.newStatus = "PENDING"
    /\ adminOrders.error = "Failed to update order status"
    /\ calls = EmptyBag

\* C17 as stated: every addToCart call made from ProductDetail carries the id of the
\* product shown and a quantity within [1, stockQuantity] of that product.
C17_CartCallWithinStock ==
    [][location = "/products/:id" =>
           \A r \in CartCallsAdded :
               /\ DetailShowsProduct
               /\ r.arg = Shown.id
               /\ 1 <= r.quantity
               /\ r.quantity <= Shown.stockQuantity]_vars

\* C18 as stated, the part about pending fetches: on Home and on ProductDetail loading
\* is true whenever a fetch of the screen is pending.
C18_LoadingWhilePending ==
    /\ (location = "/" /\ GetProductsPending # {}) => home.loading
    /\ (location = "/products/:id" /\ FetchPending) => productDetail.loading

\* C19 as stated: at most one createProduct call succeeds per visit of the form; no
\* call is issued while another is in flight, and none after a successful creation
\* while the form is still shown.
C19_OneCreatePerVisit ==
    /\ [](created <= 1)
    /\ [](Len(createCall) <= 1)
    /\ [][Len(createCall') > Len(createCall) =>
              createCall = <<>> /\ created = 0 /\ adminProductForm.success = Null]_vars

\* C20 as stated: error and success are never both non-null.
C20_BannersExclusive ==
    ~(adminProductForm.error # Null /\ adminProductForm.success # Null)

====
